---- MODULE Spec2Model ----
(***************************************************************************)
(* Model of the GIF89a encoder of Better-Image-Editor (src/simple_gif.py): *)
(* the quantizer, the LZW compressor with its bit packer, and the session  *)
(* operations start / add_frame / finish; and of the two operators of      *)
(* src/recording.py that record frames and export them through it.         *)
(*                                                                         *)
(* The specifications that share the module:                               *)
(*   SpecLzw   - one run of _lzw_encode over an index sequence, one loop   *)
(*               iteration per step, followed by a reference GIF LZW       *)
(*               decoder that reads the bytes the encoder returned;        *)
(*   SpecEnc   - an encoder session driven by arbitrary call sequences;    *)
(*   SpecPair  - two sessions built alike and given the same calls;        *)
(*   SpecQuant - the quantization paths applied to single pixels;          *)
(*   SpecStart - one start() call over the range of its parameters;        *)
(*   SpecLimit - _lzw_encode around the filling of its dictionary;         *)
(*   SpecExport - one execute() of the GIF export operator;                *)
(*   SpecRec   - the recording operator under invocations and events.      *)
(***************************************************************************)
EXTENDS Integers, Sequences, FiniteSets, TLC

VARIABLES
    pc,         \* position of the run being modelled
    indices,    \* _lzw_encode: the argument
    pos,        \* _lzw_encode: number of indices the for loop has consumed
    lz,         \* _lzw_encode: locals code_size, next_code, table, out_bits, pattern
    res,        \* _lzw_encode: the returned bytearray
    blocks,     \* add_frame: the bytes appended for the compressed data
    dec,        \* reference decoder reading res
    np1,        \* environment of the session: numpy can be imported
    np2,        \* the same for the second, independent session
    enc,        \* GIFEncoder instance: width, height, loop, data, palette
    enc2,       \* a second instance that receives the same calls
    calls,      \* history of the calls made on the instances
    before,     \* enc.data as it was before the last call
    file,       \* the file finish(filepath) writes for enc
    file2,      \* the file finish writes for enc2
    quant,      \* one quantization call: pixels, is_bgra, numpy, result
    ex,         \* BETTERIMG_OT_export_gif.execute: its files, locals, result
    rec         \* BETTERIMG_OT_record_gif: scene flag, instance, timer, log

lzwVars == <<indices, pos, lz, res, blocks, dec>>
encVars == <<np1, np2, enc, enc2, calls, before, file, file2>>
quantVars == <<quant>>
opVars == <<ex, rec>>
vars == <<pc, lzwVars, encVars, quantVars, opVars>>

(***************************************************************************)
(* Bounds of the model.                                                    *)
(***************************************************************************)
MaxShort == 3
MaxScramble == 3850
MaxCalls == 5
MaxPairCalls == 4
MaxSide == 5

(***************************************************************************)
(* _lzw_encode (src/simple_gif.py:217-281)                                 *)
(***************************************************************************)
clear_code == 256
end_code == 257
MinCodeSize == 8
MaxCodes == 4096

Pow2(n) == 2 ^ n

\* table = {bytes([i]): i for i in range(256)}
InitTable == [p \in {<<k>> : k \in 0..255} |-> p[1]]

\* locals of _lzw_encode after line 228; codes is a history of the
\* (code, width) pairs handed to emit, raised is the pending exception
LzwInit ==
    [code_size |-> MinCodeSize + 1,
     next_code |-> 258,
     table     |-> InitTable,
     out_bits  |-> <<>>,
     pattern   |-> <<>>,
     codes     |-> <<>>,
     raised    |-> "none"]

\* emit writing the most significant bit first
emit_msb(st, code) ==
    [st EXCEPT
        !.out_bits = @ \o [k \in 1..st.code_size |->
                              (code \div Pow2(st.code_size - k)) % 2],
        !.codes    = Append(@, <<code, st.code_size>>)]

\* emit(code): append the low code_size bits of code, least significant first
emit(st, code) ==
    [st EXCEPT
        !.out_bits = @ \o [k \in 1..st.code_size |-> (code \div Pow2(k - 1)) % 2],
        !.codes    = Append(@, <<code, st.code_size>>)]

\* a width that stays as it is
GrowWidth_never(st) == st

\* the width bump of lines 255-256
GrowWidth(st) ==
    IF st.next_code = Pow2(st.code_size)
    THEN [st EXCEPT !.code_size = @ + 1]
    ELSE st

\* a dictionary that is never reset
ResetAtLimit_never(st) == st

\* the dictionary reset of lines 257-261
ResetAtLimit(st) ==
    IF st.next_code = MaxCodes
    THEN [emit(st, clear_code) EXCEPT
             !.table = InitTable,
             !.code_size = MinCodeSize + 1,
             !.next_code = 258]
    ELSE st

\* an iteration that binds every inserted pattern to the same code
LzwStep_samecode(st, idx) ==
    LET c == <<idx>>
        new_pattern == st.pattern \o c
    IN  IF new_pattern \in DOMAIN st.table
        THEN [st EXCEPT !.pattern = new_pattern]
        ELSE LET s1 == emit(st, st.table[st.pattern])
                 s2 == [s1 EXCEPT
                           !.table = (new_pattern :> s1.next_code) @@ @,
                           !.pattern = c]
             IN  ResetAtLimit(GrowWidth(s2))

\* an iteration that passes over one code at each insertion
LzwStep_skipcode(st, idx) ==
    LET c == <<idx>>
        new_pattern == st.pattern \o c
    IN  IF new_pattern \in DOMAIN st.table
        THEN [st EXCEPT !.pattern = new_pattern]
        ELSE LET s1 == emit(st, st.table[st.pattern])
                 s2 == [s1 EXCEPT
                           !.table = (new_pattern :> (s1.next_code + 1)) @@ @,
                           !.next_code = @ + 2,
                           !.pattern = c]
             IN  ResetAtLimit(GrowWidth(s2))

\* an iteration that never enters a pattern into the dictionary
LzwStep_nodict(st, idx) ==
    LET c == <<idx>>
    IN  IF st.pattern = <<>>
        THEN [st EXCEPT !.pattern = c]
        ELSE [emit(st, st.table[st.pattern]) EXCEPT !.pattern = c]

\* one iteration of the for loop, lines 244-261
LzwStep(st, idx) ==
    LET c == <<idx>>
        new_pattern == st.pattern \o c
    IN  IF new_pattern \in DOMAIN st.table
        THEN [st EXCEPT !.pattern = new_pattern]
        ELSE LET s1 == emit(st, st.table[st.pattern])
                 s2 == [s1 EXCEPT
                           !.table = (new_pattern :> s1.next_code) @@ @,
                           !.next_code = @ + 1,
                           !.pattern = c]
             IN  ResetAtLimit(GrowWidth(s2))

\* an end of stream that drops the pending pattern
LzwFinal_nopending(st) ==
    IF st.pattern \in DOMAIN st.table
    THEN emit(st, end_code)
    ELSE [st EXCEPT !.raised = "KeyError"]

\* lines 263-264; table[pattern] raises KeyError when pattern is empty
LzwFinal(st) ==
    IF st.pattern \in DOMAIN st.table
    THEN emit(emit(st, st.table[st.pattern]), end_code)
    ELSE [st EXCEPT !.raised = "KeyError"]

\* lines 266-281: bits to bytes, least significant bit first
BitAt(bits, k) == IF k <= Len(bits) THEN bits[k] ELSE 0

\* bytes filled from their most significant bit down
PackBits_msb(bits) ==
    [j \in 1..((Len(bits) + 7) \div 8) |->
        LET b == 8 * (j - 1)
        IN  128 * BitAt(bits, b + 1) + 64 * BitAt(bits, b + 2)
          + 32 * BitAt(bits, b + 3)  + 16 * BitAt(bits, b + 4)
          + 8 * BitAt(bits, b + 5)   + 4 * BitAt(bits, b + 6)
          + 2 * BitAt(bits, b + 7)   + BitAt(bits, b + 8)]

PackBits(bits) ==
    [j \in 1..((Len(bits) + 7) \div 8) |->
        LET b == 8 * (j - 1)
        IN  BitAt(bits, b + 1)       + 2 * BitAt(bits, b + 2)
          + 4 * BitAt(bits, b + 3)   + 8 * BitAt(bits, b + 4)
          + 16 * BitAt(bits, b + 5)  + 32 * BitAt(bits, b + 6)
          + 64 * BitAt(bits, b + 7)  + 128 * BitAt(bits, b + 8)]

RECURSIVE LzwFold(_, _, _)
LzwFold(st, idxs, k) ==
    IF k > Len(idxs) \/ st.raised # "none"
    THEN st
    ELSE LzwFold(LzwStep(st, idxs[k]), idxs, k + 1)

\* the whole function: the returned bytes, or the exception it raises
lzw_encode(idxs) ==
    LET st == LzwFinal(LzwFold(emit(LzwInit, clear_code), idxs, 1))
    IN  IF st.raised = "none"
        THEN [raised |-> "none", bytes |-> PackBits(st.out_bits)]
        ELSE [raised |-> st.raised, bytes |-> <<>>]

\* lines 244-261 for the indices k..hi
RECURSIVE LzwFoldTo(_, _, _, _)
LzwFoldTo(st, idxs, k, hi) ==
    IF k > hi \/ st.raised # "none"
    THEN st
    ELSE LzwFoldTo(LzwStep(st, idxs[k]), idxs, k + 1, hi)

\* the same, taken FoldChunk indices at a time
FoldChunk == 50

RECURSIVE LzwRun(_, _, _, _)
LzwRun(st, idxs, k, hi) ==
    IF k > hi \/ st.raised # "none"
    THEN st
    ELSE LET mid == IF k + FoldChunk - 1 < hi THEN k + FoldChunk - 1 ELSE hi
         IN  LzwRun(LzwFoldTo(st, idxs, k, mid), idxs, mid + 1, hi)

(***************************************************************************)
(* Reference GIF LZW decoder (minimum code size 8).  It reads codes from a *)
(* byte string least significant bit first, and grows its code width when  *)
(* its own next free code reaches 2^width, up to 12 bits.                  *)
(***************************************************************************)
DecInitTable == [k \in 0..255 |-> <<k>>]

DecInit ==
    [bitpos |-> 0, width |-> MinCodeSize + 1, next |-> 258,
     table |-> DecInitTable, prev |-> -1, out |-> <<>>, status |-> "run"]

ByteBit(bytes, k) == (bytes[(k \div 8) + 1] \div Pow2(k % 8)) % 2

RECURSIVE ReadCode(_, _, _)
ReadCode(bytes, p, w) ==
    IF w = 0 THEN 0 ELSE ByteBit(bytes, p) + 2 * ReadCode(bytes, p + 1, w - 1)

DecStep(d, bytes) ==
    IF d.bitpos + d.width > 8 * Len(bytes)
    THEN [d EXCEPT !.status = "truncated"]
    ELSE
    LET code == ReadCode(bytes, d.bitpos, d.width)
        d1 == [d EXCEPT !.bitpos = @ + d.width]
    IN  IF code = clear_code
        THEN [d1 EXCEPT !.width = MinCodeSize + 1, !.next = 258,
                         !.table = DecInitTable, !.prev = -1]
        ELSE IF code = end_code
        THEN [d1 EXCEPT !.status = "eoi"]
        ELSE IF d.prev = -1
        THEN IF code \in DOMAIN d.table
             THEN [d1 EXCEPT !.out = @ \o d.table[code], !.prev = code]
             ELSE [d1 EXCEPT !.status = "bad"]
        ELSE IF code \in DOMAIN d.table \/ (code = d.next /\ d.next < MaxCodes)
        THEN LET pv == d.table[d.prev]
                 entry == IF code \in DOMAIN d.table
                          THEN d.table[code]
                          ELSE Append(pv, pv[1])
                 d2 == [d1 EXCEPT !.out = @ \o entry, !.prev = code]
             IN  IF d.next < MaxCodes
                 THEN LET nn == d.next + 1
                      IN  [d2 EXCEPT
                              !.table = (d.next :> Append(pv, entry[1])) @@ @,
                              !.next = nn,
                              !.width = IF nn = Pow2(d.width) /\ d.width < 12
                                        THEN d.width + 1 ELSE d.width]
                 ELSE d2
        ELSE [d1 EXCEPT !.status = "bad"]

RECURSIVE DecodeAll(_, _)
DecodeAll(d, bytes) ==
    IF d.status # "run" THEN d ELSE DecodeAll(DecStep(d, bytes), bytes)

(***************************************************************************)
(* Quantization (src/simple_gif.py:97-138 and 184-215)                     *)
(***************************************************************************)
thresholds == <<26, 77, 128, 179, 230>>

\* np.searchsorted(thresholds, v) with the default side='left': the first
\* position i with v <= thresholds[i], i.e. the number of thresholds below v
searchsorted(a, v) == Cardinality({i \in DOMAIN a : a[i] < v})

\* _map_pixels_to_palette_numpy; np_ok is whether `import numpy` succeeds.
\* none stands for the None the method returns.
map_pixels_to_palette_numpy(pixels, is_bgra, np_ok) ==
    IF ~np_ok THEN [none |-> TRUE, indices |-> <<>>]
    ELSE IF Len(pixels) % 4 # 0 THEN [none |-> TRUE, indices |-> <<>>]
    ELSE [none |-> FALSE,
          indices |->
            [k \in 1..(Len(pixels) \div 4) |->
                LET o == 4 * (k - 1)
                    r == IF is_bgra THEN pixels[o + 3] ELSE pixels[o + 1]
                    g == pixels[o + 2]
                    b == IF is_bgra THEN pixels[o + 1] ELSE pixels[o + 3]
                IN  searchsorted(thresholds, r) * 36
                    + searchsorted(thresholds, g) * 6
                    + searchsorted(thresholds, b)]]

\* get_level of the method bound to _map_pixels_to_palette (lines 197-203)
get_level(v) ==
    IF v < 26 THEN 0
    ELSE IF v < 77 THEN 1
    ELSE IF v < 128 THEN 2
    ELSE IF v < 179 THEN 3
    ELSE IF v < 230 THEN 4
    ELSE 5

\* the definition of _map_pixels_to_palette that the class ends up with
\* (line 184 replaces line 140): one parameter, R,G,B at offsets 0,1,2.
\* pixels[i+1] or pixels[i+2] past the end raises IndexError.
map_pixels_to_palette(pixels) ==
    IF Len(pixels) % 4 \in {1, 2}
    THEN [raised |-> "IndexError", indices |-> <<>>]
    ELSE [raised |-> "none",
          indices |->
            [k \in 1..((Len(pixels) + 3) \div 4) |->
                LET o == 4 * (k - 1)
                IN  get_level(pixels[o + 1]) * 36
                    + get_level(pixels[o + 2]) * 6
                    + get_level(pixels[o + 3])]]

\* number of arguments _map_pixels_to_palette accepts besides self (line 184)
\* and the number add_frame passes (line 86)
FallbackParams == 1
FallbackArgsPassed == 2

\* lines 84-86 of add_frame: the accelerated path, then the fallback call
quantize_call(pixels, is_bgra, np_ok) ==
    LET fast == map_pixels_to_palette_numpy(pixels, is_bgra, np_ok)
    IN  IF ~fast.none
        THEN [raised |-> "none", indices |-> fast.indices]
        ELSE IF FallbackArgsPassed # FallbackParams
        THEN [raised |-> "TypeError", indices |-> <<>>]
        ELSE map_pixels_to_palette(pixels)

(***************************************************************************)
(* GIFEncoder (src/simple_gif.py:14-95, 169-182)                           *)
(***************************************************************************)
\* struct.pack('<H', v) accepts 0..65535 and raises struct.error otherwise
InU16(v) == v \in 0..65535
\* the high byte first
PackH_be(v) == <<v \div 256, v % 256>>

PackH(v) == <<v % 256, v \div 256>>

Sig == <<71, 73, 70, 56, 57, 97>>                            \* b'GIF89a'
NetscapeExt ==                                               \* b'\x21\xFF\x0BNETSCAPE2.0'
    <<33, 255, 11, 78, 69, 84, 83, 67, 65, 80, 69, 50, 46, 48>>
Trailer == 59                                                \* 0x3B

\* __init__
new(width, height, loop) ==
    [width |-> width, height |-> height, loop |-> loop,
     data |-> <<>>, palette |-> <<>>, frames |-> <<>>]

levels == <<0, 51, 102, 153, 204, 255>>

\* the cube enumerated with the red level varying fastest
generate_palette_rfast ==
    [k \in 1..216 |->
        <<levels[((k - 1) % 6) + 1],
          levels[(((k - 1) \div 6) % 6) + 1],
          levels[((k - 1) \div 36) + 1]>>]

generate_palette ==
    [k \in 1..216 |->
        <<levels[((k - 1) \div 36) + 1],
          levels[(((k - 1) \div 6) % 6) + 1],
          levels[((k - 1) % 6) + 1]>>]

PaletteBytes(pal) ==
    [j \in 1..(3 * Len(pal)) |-> pal[((j - 1) \div 3) + 1][((j - 1) % 3) + 1]]

\* a fill that stops one entry short
PaletteFill_short(pal) == [j \in 1..(3 * (255 - Len(pal))) |-> 0]

PaletteFill(pal) == [j \in 1..(3 * (256 - Len(pal))) |-> 0]

\* start(): the instance afterwards and the exception raised, if any
start(s) ==
    LET d0 == s.data \o Sig
    IN  IF ~(InU16(s.width) /\ InU16(s.height))
        THEN [s |-> [s EXCEPT !.data = d0], raised |-> "struct.error"]
        ELSE
        LET pal == generate_palette
            d1 == d0 \o PackH(s.width) \o PackH(s.height) \o <<247, 0, 0>>
                     \o PaletteBytes(pal) \o PaletteFill(pal)
            s1 == [s EXCEPT !.palette = pal]
        IN  IF s.loop >= 0
            THEN LET d2 == d1 \o NetscapeExt \o <<3, 1>>
                 IN  IF InU16(s.loop)
                     THEN [s |-> [s1 EXCEPT !.data = d2 \o PackH(s.loop) \o <<0>>],
                           raised |-> "none"]
                     ELSE [s |-> [s1 EXCEPT !.data = d2], raised |-> "struct.error"]
            ELSE [s |-> [s1 EXCEPT !.data = d1], raised |-> "none"]

\* lines 90-93: length-prefixed chunks of at most 255 bytes
RECURSIVE SubBlocks(_, _)
SubBlocks(lzw_data, i) ==
    IF i > Len(lzw_data) THEN <<>>
    ELSE LET hi == IF i + 254 <= Len(lzw_data) THEN i + 254 ELSE Len(lzw_data)
             chunk == SubSeq(lzw_data, i, hi)
         IN  <<Len(chunk)>> \o chunk \o SubBlocks(lzw_data, i + 255)

\* the whole stream written as one block behind a single length byte
FrameData_oneblock(lzw_data) == <<Len(lzw_data)>> \o lzw_data \o <<0>>

\* lines 90-95: the chunks, then the terminating zero byte
FrameData(lzw_data) == SubBlocks(lzw_data, 1) \o <<0>>

\* an add_frame whose compressor is started afresh, with its Clear code,
\* for the first frame of a buffer only
add_frame_shared(s, f, np_ok) ==
    LET d0 == s.data \o <<33, 249, 4, 8>>
    IN  IF ~InU16(f.delay)
        THEN [s |-> [s EXCEPT !.data = d0], raised |-> "struct.error"]
        ELSE
        LET d1 == d0 \o PackH(f.delay) \o <<0, 0>> \o <<44>> \o <<0, 0, 0, 0>>
        IN  IF ~(InU16(f.width) /\ InU16(f.height))
            THEN [s |-> [s EXCEPT !.data = d1], raised |-> "struct.error"]
            ELSE
            LET d2 == d1 \o PackH(f.width) \o PackH(f.height) \o <<0>> \o <<8>>
                q == quantize_call(f.pixels, f.is_bgra, np_ok)
            IN  IF q.raised # "none"
                THEN [s |-> [s EXCEPT !.data = d2], raised |-> q.raised]
                ELSE
                LET st == LzwFinal(LzwFold(IF Len(s.data) > 800 THEN LzwInit
                                           ELSE emit(LzwInit, clear_code),
                                           q.indices, 1))
                IN  IF st.raised # "none"
                    THEN [s |-> [s EXCEPT !.data = d2], raised |-> st.raised]
                    ELSE [s |-> [s EXCEPT !.data = d2 \o FrameData(PackBits(st.out_bits))],
                          raised |-> "none"]

\* an add_frame that begins a new buffer instead of extending the session's
add_frame_restart(s, f, np_ok) ==
    LET d0 == <<33, 249, 4, 8>>
    IN  IF ~InU16(f.delay)
        THEN [s |-> [s EXCEPT !.data = d0], raised |-> "struct.error"]
        ELSE
        LET d1 == d0 \o PackH(f.delay) \o <<0, 0>> \o <<44>> \o <<0, 0, 0, 0>>
        IN  IF ~(InU16(f.width) /\ InU16(f.height))
            THEN [s |-> [s EXCEPT !.data = d1], raised |-> "struct.error"]
            ELSE
            LET d2 == d1 \o PackH(f.width) \o PackH(f.height) \o <<0>> \o <<8>>
                q == quantize_call(f.pixels, f.is_bgra, np_ok)
            IN  IF q.raised # "none"
                THEN [s |-> [s EXCEPT !.data = d2], raised |-> q.raised]
                ELSE
                LET z == lzw_encode(q.indices)
                IN  IF z.raised # "none"
                    THEN [s |-> [s EXCEPT !.data = d2], raised |-> z.raised]
                    ELSE [s |-> [s EXCEPT !.data = d2 \o FrameData(z.bytes)],
                          raised |-> "none"]

\* add_frame(pixels, width, height, delay, is_bgra)
add_frame(s, f, np_ok) ==
    LET d0 == s.data \o <<33, 249, 4, 8>>
    IN  IF ~InU16(f.delay)
        THEN [s |-> [s EXCEPT !.data = d0], raised |-> "struct.error"]
        ELSE
        LET d1 == d0 \o PackH(f.delay) \o <<0, 0>> \o <<44>> \o <<0, 0, 0, 0>>
        IN  IF ~(InU16(f.width) /\ InU16(f.height))
            THEN [s |-> [s EXCEPT !.data = d1], raised |-> "struct.error"]
            ELSE
            LET d2 == d1 \o PackH(f.width) \o PackH(f.height) \o <<0>> \o <<8>>
                q == quantize_call(f.pixels, f.is_bgra, np_ok)
            IN  IF q.raised # "none"
                THEN [s |-> [s EXCEPT !.data = d2], raised |-> q.raised]
                ELSE
                LET z == lzw_encode(q.indices)
                IN  IF z.raised # "none"
                    THEN [s |-> [s EXCEPT !.data = d2], raised |-> z.raised]
                    ELSE [s |-> [s EXCEPT !.data = d2 \o FrameData(z.bytes)],
                          raised |-> "none"]

\* finish that writes the buffer without the trailer
finish_no_trailer(s, f, io) ==
    IF io = "ok"
    THEN [s |-> s, raised |-> "none", file |-> [exists |-> TRUE, bytes |-> s.data]]
    ELSE IF io = "open_fails"
    THEN [s |-> s, raised |-> "OSError", file |-> f]
    ELSE [s |-> s, raised |-> "OSError",
          file |-> [exists |-> TRUE, bytes |-> SubSeq(s.data, 1, Len(s.data) \div 2)]]

\* finish(filepath).  io is what the file system does: "ok", "open_fails"
\* (open raises, the file is not touched) or "write_fails" (the file was
\* opened, hence truncated, and write raises after part of the bytes).
finish(s, f, io) ==
    LET d == Append(s.data, Trailer)
        s1 == [s EXCEPT !.data = d]
    IN  IF io = "ok"
        THEN [s |-> s1, raised |-> "none", file |-> [exists |-> TRUE, bytes |-> d]]
        ELSE IF io = "open_fails"
        THEN [s |-> s1, raised |-> "OSError", file |-> f]
        ELSE [s |-> s1, raised |-> "OSError",
              file |-> [exists |-> TRUE, bytes |-> SubSeq(d, 1, Len(d) \div 2)]]

(***************************************************************************)
(* Index sequences fed to _lzw_encode.                                     *)
(***************************************************************************)
Solid(c, n) == [k \in 1..n |-> c]

\* a sequence in which adjacent pairs do not repeat, so that nearly every
\* index adds a dictionary entry
Scramble(n) == [k \in 1..n |-> (((k - 1) % 211) * (((k - 1) \div 211) + 1)) % 211]

ShortAlphabet == {0, 1, 215}

ShortInputs == UNION {[1..n -> ShortAlphabet] : n \in 0..MaxShort}

\* solid-colour frames of W x H pixels
SolidFrames == {Solid(c, w * h) : c \in {0, 215}, w \in 2..MaxSide, h \in 2..MaxSide}

LzwInputs ==
    ShortInputs
    \cup {Solid(5, 16), Solid(215, 64)}
    \cup SolidFrames
    \cup {Scramble(254), Scramble(255), Scramble(MaxScramble)}

(***************************************************************************)
(* Sessions and frames given to the encoder.                               *)
(***************************************************************************)
SolidPixels(n, p) == [k \in 1..(4 * n) |-> p[((k - 1) % 4) + 1]]

Checkerboard(w, h, p0, p1) ==
    [k \in 1..(4 * w * h) |->
        LET px == (k - 1) \div 4
            x == px % w
            y == px \div w
        IN  IF (x + y) % 2 = 0 THEN p0[((k - 1) % 4) + 1] ELSE p1[((k - 1) % 4) + 1]]

Frame(pixels, width, height, delay, is_bgra) ==
    [pixels |-> pixels, width |-> width, height |-> height,
     delay |-> delay, is_bgra |-> is_bgra]

RedBGRA == <<0, 0, 255, 255>>
Black == <<0, 0, 0, 255>>
White == <<255, 255, 255, 0>>

Sessions ==
    {[width |-> 4, height |-> 4, loop |-> 0],
     [width |-> 8, height |-> 8, loop |-> -1],
     [width |-> 2, height |-> 2, loop |-> 3]}

\* the n-th frame of an animation of solid colours with distinct delays
AnimColour(n) ==
    <<(10 + 40 * n) % 256, (20 + 40 * n) % 256, (35 + 40 * n) % 256, 255>>
AnimDelay(n) == IF n = 0 THEN 1 ELSE IF n = 1 THEN 300 ELSE IF n = 2 THEN 65535 ELSE 10

\* the frames offered to a session that has been given n frames so far:
\* well-formed ones, one whose buffer is a byte short, and one whose
\* dimensions are not the session's
FramesFor(w, h, n) ==
    IF w = 4 THEN
        {Frame(SolidPixels(16, RedBGRA), 4, 4, 10, TRUE),
         Frame(SubSeq(SolidPixels(16, RedBGRA), 1, 63), 4, 4, 10, TRUE)}
    ELSE IF w = 8 THEN
        {Frame(Checkerboard(8, 8, Black, White), 8, 8, 7, FALSE),
         Frame(SolidPixels(16, RedBGRA), 4, 4, 10, TRUE)}
    ELSE
        {Frame(SolidPixels(4, AnimColour(n)), 2, 2, AnimDelay(n), FALSE)}

IoOutcomes == {"ok", "open_fails", "write_fails"}

NoFile == [exists |-> FALSE, bytes |-> <<>>]

NumFrames(cs) == Cardinality({k \in DOMAIN cs : cs[k].op = "add_frame"})

(***************************************************************************)
(* Values of the variables a specification does not use.                   *)
(***************************************************************************)
IdleLzw ==
    /\ indices = <<>>
    /\ pos = 0
    /\ lz = [code_size |-> 0, next_code |-> 0, table |-> <<>>, out_bits |-> <<>>,
             pattern |-> <<>>, codes |-> <<>>, raised |-> "none"]
    /\ res = <<>>
    /\ blocks = <<>>
    /\ dec = [bitpos |-> 0, width |-> 0, next |-> 0, table |-> <<>>, prev |-> -1,
              out |-> <<>>, status |-> "idle"]

IdleSecond ==
    /\ np2 = FALSE
    /\ enc2 = new(0, 0, 0)
    /\ file2 = NoFile

IdleEnc ==
    /\ np1 = FALSE
    /\ enc = new(0, 0, 0)
    /\ calls = <<>>
    /\ before = <<>>
    /\ file = NoFile
    /\ IdleSecond

IdleQuant ==
    quant = [pixels |-> <<>>, is_bgra |-> FALSE, np_ok |-> FALSE,
             out |-> [raised |-> "none", indices |-> <<>>]]

ExIdle ==
    [img_ok |-> FALSE, dir_ok |-> FALSE, nfiles |-> 0, dims |-> <<0, 0>>,
     bad |-> {}, io |-> "ok", frames |-> <<>>, i |-> 0, w |-> 0, h |-> 0,
     raised_at |-> "none", reports |-> <<>>, ret |-> "running"]

\* an operator instance as Blender creates it for each invocation, with the
\* class attributes _timer = None and _frame_count = 0 (lines 42-44);
\* written counts the frame files its captures wrote completely, stale
\* says that is_recording became false since its handler last ran
NewInstance ==
    [state |-> "new", timer |-> FALSE, frame_count |-> 0, written |-> 0,
     stale |-> FALSE]

RecIdle ==
    [is_recording |-> FALSE, inst |-> <<>>, log |-> <<>>]

IdleOps ==
    /\ ex = ExIdle
    /\ rec = RecIdle

(***************************************************************************)
(* SpecLzw: one call of _lzw_encode, the sub-blocks add_frame makes of the *)
(* returned bytes, then the reference decoder.                             *)
(***************************************************************************)
InitLzw ==
    /\ pc = "lzw_start"
    /\ indices \in LzwInputs
    /\ pos = 0
    /\ lz = LzwInit
    /\ res = <<>>
    /\ blocks = <<>>
    /\ dec = DecInit
    /\ IdleEnc
    /\ IdleQuant
    /\ IdleOps

\* line 241
LzwEmitClear ==
    /\ pc = "lzw_start"
    /\ lz' = emit(lz, clear_code)
    /\ pc' = "lzw_loop"
    /\ UNCHANGED <<indices, pos, res, blocks, dec, encVars, quantVars, opVars>>

\* lines 244-261, one index
LzwLoop ==
    /\ pc = "lzw_loop"
    /\ pos < Len(indices)
    /\ lz' = LzwStep(lz, indices[pos + 1])
    /\ pos' = pos + 1
    /\ UNCHANGED <<pc, indices, res, blocks, dec, encVars, quantVars, opVars>>

\* lines 263-264
LzwEnd ==
    /\ pc = "lzw_loop"
    /\ pos = Len(indices)
    /\ lz' = LzwFinal(lz)
    /\ pc' = IF lz'.raised = "none" THEN "lzw_pack" ELSE "lzw_raised"
    /\ UNCHANGED <<indices, pos, res, blocks, dec, encVars, quantVars, opVars>>

\* lines 266-281
LzwPack ==
    /\ pc = "lzw_pack"
    /\ res' = PackBits(lz.out_bits)
    /\ pc' = "lzw_blocks"
    /\ UNCHANGED <<indices, pos, lz, blocks, dec, encVars, quantVars, opVars>>

\* add_frame lines 90-95 applied to the returned bytes
WriteBlocks ==
    /\ pc = "lzw_blocks"
    /\ blocks' = FrameData(res)
    /\ pc' = "decode"
    /\ UNCHANGED <<indices, pos, lz, res, dec, encVars, quantVars, opVars>>

\* the reader of the returned bytes takes one code
Decode ==
    /\ pc = "decode"
    /\ dec.status = "run"
    /\ dec' = DecStep(dec, res)
    /\ UNCHANGED <<pc, indices, pos, lz, res, blocks, encVars, quantVars, opVars>>

DecodeEnd ==
    /\ pc = "decode"
    /\ dec.status # "run"
    /\ pc' = "decoded"
    /\ UNCHANGED <<lzwVars, encVars, quantVars, opVars>>

NextLzw ==
    \/ LzwEmitClear
    \/ LzwLoop
    \/ LzwEnd
    \/ LzwPack
    \/ WriteBlocks
    \/ Decode
    \/ DecodeEnd

SpecLzw == InitLzw /\ [][NextLzw]_vars

(***************************************************************************)
(* SpecEnc: one encoder instance, driven by the calls a caller may make in *)
(* any order, where numpy may or may not be importable.                    *)
(***************************************************************************)
InitEnc ==
    /\ pc = "session"
    /\ np1 \in BOOLEAN
    /\ \E c \in Sessions : enc = new(c.width, c.height, c.loop)
    /\ calls = <<>>
    /\ before = <<>>
    /\ file = NoFile
    /\ IdleSecond
    /\ IdleLzw
    /\ IdleQuant
    /\ IdleOps

CallStart ==
    /\ pc = "session"
    /\ Len(calls) < MaxCalls
    /\ LET r == start(enc)
       IN  /\ enc' = r.s
           /\ calls' = Append(calls, [op |-> "start", raised |-> r.raised])
    /\ before' = enc.data
    /\ UNCHANGED <<pc, np1, file, np2, enc2, file2, lzwVars, quantVars, opVars>>

CallAddFrame ==
    /\ pc = "session"
    /\ Len(calls) < MaxCalls
    /\ \E f \in FramesFor(enc.width, enc.height, NumFrames(calls)) :
          LET r == add_frame(enc, f, np1)
          IN  /\ enc' = r.s
              /\ calls' = Append(calls, [op |-> "add_frame", raised |-> r.raised,
                                         frame |-> f])
    /\ before' = enc.data
    /\ UNCHANGED <<pc, np1, file, np2, enc2, file2, lzwVars, quantVars, opVars>>

CallFinish ==
    /\ pc = "session"
    /\ Len(calls) < MaxCalls
    /\ \E io \in IoOutcomes :
          LET r == finish(enc, file, io)
          IN  /\ enc' = r.s
              /\ file' = r.file
              /\ calls' = Append(calls, [op |-> "finish", raised |-> r.raised,
                                         io |-> io])
    /\ before' = enc.data
    /\ UNCHANGED <<pc, np1, np2, enc2, file2, lzwVars, quantVars, opVars>>

NextEnc ==
    \/ CallStart
    \/ CallAddFrame
    \/ CallFinish

SpecEnc == InitEnc /\ [][NextEnc]_vars

(***************************************************************************)
(* SpecPair: two independent instances built with the same arguments are   *)
(* given the same calls; each runs where numpy may or may not be           *)
(* importable.                                                             *)
(***************************************************************************)
InitPair ==
    /\ pc = "pair"
    /\ np1 \in BOOLEAN
    /\ np2 \in BOOLEAN
    /\ \E c \in Sessions :
          /\ enc = new(c.width, c.height, c.loop)
          /\ enc2 = new(c.width, c.height, c.loop)
    /\ calls = <<>>
    /\ before = <<>>
    /\ file = NoFile
    /\ file2 = NoFile
    /\ IdleLzw
    /\ IdleQuant
    /\ IdleOps

PairStart ==
    /\ pc = "pair"
    /\ Len(calls) < MaxPairCalls
    /\ LET r1 == start(enc)
           r2 == start(enc2)
       IN  /\ enc' = r1.s
           /\ enc2' = r2.s
           /\ calls' = Append(calls, [op |-> "start", raised |-> r1.raised,
                                      raised2 |-> r2.raised])
    /\ before' = enc.data
    /\ UNCHANGED <<pc, np1, np2, file, file2, lzwVars, quantVars, opVars>>

PairAddFrame ==
    /\ pc = "pair"
    /\ Len(calls) < MaxPairCalls
    /\ \E f \in FramesFor(enc.width, enc.height, NumFrames(calls)) :
          LET r1 == add_frame(enc, f, np1)
              r2 == add_frame(enc2, f, np2)
          IN  /\ enc' = r1.s
              /\ enc2' = r2.s
              /\ calls' = Append(calls, [op |-> "add_frame", raised |-> r1.raised,
                                         raised2 |-> r2.raised, frame |-> f])
    /\ before' = enc.data
    /\ UNCHANGED <<pc, np1, np2, file, file2, lzwVars, quantVars, opVars>>

PairFinish ==
    /\ pc = "pair"
    /\ Len(calls) < MaxPairCalls
    /\ \E io \in IoOutcomes :
          LET r1 == finish(enc, file, io)
              r2 == finish(enc2, file2, io)
          IN  /\ enc' = r1.s
              /\ enc2' = r2.s
              /\ file' = r1.file
              /\ file2' = r2.file
              /\ calls' = Append(calls, [op |-> "finish", raised |-> r1.raised,
                                         raised2 |-> r2.raised, io |-> io])
    /\ before' = enc.data
    /\ UNCHANGED <<pc, np1, np2, lzwVars, quantVars, opVars>>

NextPair ==
    \/ PairStart
    \/ PairAddFrame
    \/ PairFinish

SpecPair == InitPair /\ [][NextPair]_vars

(***************************************************************************)
(* SpecQuant: lines 84-86 of add_frame applied to one pixel.               *)
(***************************************************************************)
ChannelSample == {0, 26, 128, 229, 255}

InitQuant ==
    /\ pc = "quant_start"
    /\ \E c1 \in 0..255, c2 \in ChannelSample, c3 \in ChannelSample,
          a \in {0, 255}, fl \in BOOLEAN, np \in BOOLEAN :
          quant = [pixels |-> <<c1, c2, c3, a>>, is_bgra |-> fl, np_ok |-> np,
                   out |-> [raised |-> "none", indices |-> <<>>]]
    /\ IdleLzw
    /\ IdleEnc
    /\ IdleOps

Quantize ==
    /\ pc = "quant_start"
    /\ quant' = [quant EXCEPT !.out = quantize_call(quant.pixels, quant.is_bgra,
                                                    quant.np_ok)]
    /\ pc' = "quant_done"
    /\ UNCHANGED <<lzwVars, encVars, opVars>>

NextQuant == Quantize

SpecQuant == InitQuant /\ [][NextQuant]_vars

(***************************************************************************)
(* SpecLimit: the call of _lzw_encode on the input that fills the          *)
(* dictionary, taken up from the loop iterations shortly before next_code  *)
(* reaches 4096; lz is what lines 241-261 have made of the indices         *)
(* consumed so far.                                                        *)
(***************************************************************************)
LimitStarts == {3700, 3800, 3835}

InitLimit ==
    /\ pc = "lzw_loop"
    /\ indices = Scramble(MaxScramble)
    /\ pos \in LimitStarts
    /\ lz = LzwRun(emit(LzwInit, clear_code), indices, 1, pos)
    /\ res = <<>>
    /\ blocks = <<>>
    /\ dec = DecInit
    /\ IdleEnc
    /\ IdleQuant
    /\ IdleOps

NextLimit ==
    \/ LzwLoop
    \/ LzwEnd
    \/ LzwPack

SpecLimit == InitLimit /\ [][NextLimit]_vars

(***************************************************************************)
(* SpecStart: one fresh instance and its start() call, over screen sizes   *)
(* of the u16 range and loop counts of the i32 range.                      *)
(***************************************************************************)
StartSides == {0, 1, 255, 256, 300, 65535}
StartLoops == {-2147483647, -1, 0, 1, 255, 256, 65535, 65536, 2147483647}

InitStart ==
    /\ pc = "construct"
    /\ np1 = FALSE
    /\ \E w \in StartSides, h \in StartSides, l \in StartLoops : enc = new(w, h, l)
    /\ calls = <<>>
    /\ before = <<>>
    /\ file = NoFile
    /\ IdleSecond
    /\ IdleLzw
    /\ IdleQuant
    /\ IdleOps

StartOnce ==
    /\ pc = "construct"
    /\ LET r == start(enc)
       IN  /\ enc' = r.s
           /\ calls' = Append(calls, [op |-> "start", raised |-> r.raised])
    /\ before' = enc.data
    /\ pc' = "started"
    /\ UNCHANGED <<np1, file, np2, enc2, file2, lzwVars, quantVars, opVars>>

NextStart == StartOnce

SpecStart == InitStart /\ [][NextStart]_vars

(***************************************************************************)
(* SpecExport: one execute() of BETTERIMG_OT_export_gif                    *)
(* (src/recording.py:198-263) on a directory of numbered frame files.  The *)
(* environment fixes whether the editor shows a sequence, whether the      *)
(* directory exists, how many frame files it holds, which size the first   *)
(* one declares, which of them cannot be read, whether numpy can be        *)
(* imported, and what the file system does when finish() writes.           *)
(***************************************************************************)
MaxFiles == 3

\* sizes in the header of frame_00000.bmp: one the encoder accepts and one
\* beyond the 16-bit fields of the GIF screen descriptor
ExDims == {<<2, 2>>, <<70000, 2>>}

\* the BGRA bytes behind the 54-byte header of frame file number n
ExPixels(n) == SolidPixels(4, AnimColour(n))

\* the frame files taken from the highest number down
collect_frames_downwards(n) == [k \in 1..n |-> n - k]

\* lines 222-229: the existing frame files, numbered upwards from 0
collect_frames(n) == [k \in 1..n |-> k - 1]

InitExport ==
    /\ pc = "ex_begin"
    /\ np1 \in BOOLEAN
    /\ enc = new(0, 0, 0)
    /\ calls = <<>>
    /\ before = <<>>
    /\ file = NoFile
    /\ IdleSecond
    /\ IdleLzw
    /\ IdleQuant
    /\ rec = RecIdle
    /\ \E img \in BOOLEAN, dir \in BOOLEAN, n \in 0..MaxFiles, d \in ExDims,
          b \in {{}, {0}, {1}}, io \in IoOutcomes :
          ex = [ExIdle EXCEPT !.img_ok = img, !.dir_ok = dir, !.nfiles = n,
                              !.dims = d, !.bad = b, !.io = io]

\* lines 200-211: the two early returns
ExCheck ==
    /\ pc = "ex_begin"
    /\ IF ~ex.img_ok
       THEN /\ ex' = [ex EXCEPT !.reports = Append(@, "WARNING"), !.ret = "CANCELLED"]
            /\ pc' = "ex_done"
       ELSE IF ~ex.dir_ok
       THEN /\ ex' = [ex EXCEPT !.reports = Append(@, "ERROR"), !.ret = "CANCELLED"]
            /\ pc' = "ex_done"
       ELSE /\ ex' = ex
            /\ pc' = "ex_collect"
    /\ UNCHANGED <<lzwVars, encVars, quantVars, rec>>

\* lines 222-231
ExCollect ==
    /\ pc = "ex_collect"
    /\ LET fs == collect_frames(ex.nfiles)
       IN  IF fs = <<>>
           THEN /\ ex' = [ex EXCEPT !.ret = "CANCELLED"]
                /\ pc' = "ex_done"
           ELSE /\ ex' = [ex EXCEPT !.frames = fs]
                /\ pc' = "ex_dims"
    /\ UNCHANGED <<lzwVars, encVars, quantVars, rec>>

\* lines 236-240: width and height from the header of the first frame
ExReadDims ==
    /\ pc = "ex_dims"
    /\ IF ex.frames[1] \in ex.bad
       THEN /\ ex' = [ex EXCEPT !.raised_at = "read_header"]
            /\ pc' = "ex_except"
       ELSE /\ ex' = [ex EXCEPT !.w = ex.dims[1], !.h = ex.dims[2]]
            /\ pc' = "ex_start"
    /\ UNCHANGED <<lzwVars, encVars, quantVars, rec>>

\* lines 242-243
ExStart ==
    /\ pc = "ex_start"
    /\ LET r == start(new(ex.w, ex.h, 0))
       IN  /\ enc' = r.s
           /\ calls' = Append(calls, [op |-> "start", raised |-> r.raised])
           /\ IF r.raised = "none"
              THEN ex' = ex /\ pc' = "ex_frames"
              ELSE ex' = [ex EXCEPT !.raised_at = "start"] /\ pc' = "ex_except"
    /\ before' = enc.data
    /\ UNCHANGED <<np1, file, np2, enc2, file2, lzwVars, quantVars, rec>>

\* lines 247-257, one frame file
ExAddFrame ==
    /\ pc = "ex_frames"
    /\ ex.i < Len(ex.frames)
    /\ LET fno == ex.frames[ex.i + 1]
       IN  IF fno \in ex.bad
           THEN /\ ex' = [ex EXCEPT !.raised_at = "read_frame"]
                /\ pc' = "ex_except"
                /\ UNCHANGED <<enc, calls, before>>
           ELSE LET f == Frame(ExPixels(fno), ex.w, ex.h, 10, TRUE)
                    r == add_frame(enc, f, np1)
                IN  /\ enc' = r.s
                    /\ calls' = Append(calls, [op |-> "add_frame", raised |-> r.raised,
                                               frame |-> f, fno |-> fno])
                    /\ before' = enc.data
                    /\ IF r.raised = "none"
                       THEN ex' = [ex EXCEPT !.i = @ + 1] /\ pc' = "ex_frames"
                       ELSE ex' = [ex EXCEPT !.raised_at = "add_frame"] /\ pc' = "ex_except"
    /\ UNCHANGED <<np1, file, np2, enc2, file2, lzwVars, quantVars, rec>>

\* lines 259-260; the method then ends without a return statement
ExFinish ==
    /\ pc = "ex_frames"
    /\ ex.i = Len(ex.frames)
    /\ LET r == finish(enc, file, ex.io)
       IN  /\ enc' = r.s
           /\ file' = r.file
           /\ calls' = Append(calls, [op |-> "finish", raised |-> r.raised,
                                      io |-> ex.io])
           /\ IF r.raised = "none"
              THEN /\ ex' = [ex EXCEPT !.reports = Append(@, "INFO"), !.ret = "None"]
                   /\ pc' = "ex_done"
              ELSE /\ ex' = [ex EXCEPT !.raised_at = "finish"]
                   /\ pc' = "ex_except"
    /\ before' = enc.data
    /\ UNCHANGED <<np1, np2, enc2, file2, lzwVars, quantVars, rec>>

\* lines 261-263
ExExcept ==
    /\ pc = "ex_except"
    /\ ex' = [ex EXCEPT !.reports = Append(@, "ERROR"), !.ret = "CANCELLED"]
    /\ pc' = "ex_done"
    /\ UNCHANGED <<lzwVars, encVars, quantVars, rec>>

NextExport ==
    \/ ExCheck
    \/ ExCollect
    \/ ExReadDims
    \/ ExStart
    \/ ExAddFrame
    \/ ExFinish
    \/ ExExcept

SpecExport == InitExport /\ [][NextExport]_vars

(***************************************************************************)
(* SpecRec: BETTERIMG_OT_record_gif (src/recording.py:39-176).  Each       *)
(* invocation runs invoke() on a new operator instance; an instance whose  *)
(* start_recording() registered it as modal handler then receives events.  *)
(* Invocations, events and writes to the scene flag by other code come in  *)
(* any order.                                                              *)
(***************************************************************************)
MaxInvokes == 3
MaxEvents == 4

\* every running handler has yet to see that the flag was cleared
MarkStale(insts) ==
    [k \in DOMAIN insts |->
        IF insts[k].state = "running" THEN [insts[k] EXCEPT !.stale = TRUE]
        ELSE insts[k]]

\* stop_recording, lines 88-99, on instance i
stop_recording(r, i) ==
    LET r1 == [r EXCEPT !.is_recording = FALSE, !.inst = MarkStale(@)]
    IN  [r1 EXCEPT !.inst[i].timer = FALSE]

\* start_recording, lines 54-78, on instance i
start_recording(r, i) ==
    [r EXCEPT !.is_recording = TRUE,
              !.inst[i].frame_count = 0,
              !.inst[i].written = 0,
              !.inst[i].timer = TRUE,
              !.inst[i].state = "running"]

\* invoke, lines 46-52, on the new instance i
invoke(r, i) ==
    IF r.is_recording
    THEN [stop_recording(r, i) EXCEPT !.inst[i].state = "finished"]
    ELSE start_recording(r, i)

\* capture_frame, lines 161-176; ok says that get_screen_region and
\* write_bmp both returned
capture_frame(r, i, ok) ==
    IF ok
    THEN [r EXCEPT !.inst[i].written = @ + 1, !.inst[i].frame_count = @ + 1]
    ELSE r

\* modal, lines 152-159: the instance afterwards and the returned set
modal(r, i, ev, ok) ==
    IF ~r.is_recording
    THEN [r |-> [stop_recording(r, i) EXCEPT !.inst[i].state = "finished"],
          ret |-> "FINISHED", captured |-> FALSE]
    ELSE IF ev = "TIMER"
    THEN [r |-> capture_frame(r, i, ok), ret |-> "PASS_THROUGH", captured |-> ok]
    ELSE [r |-> r, ret |-> "PASS_THROUGH", captured |-> FALSE]

InitRec ==
    /\ pc = "rec"
    /\ rec = RecIdle
    /\ ex = ExIdle
    /\ IdleLzw
    /\ IdleEnc
    /\ IdleQuant

\* the operator is invoked once more
RecInvoke ==
    /\ pc = "rec"
    /\ Len(rec.inst) < MaxInvokes
    /\ LET i == Len(rec.inst) + 1
           r == [rec EXCEPT !.inst = Append(@, NewInstance)]
       IN  rec' = invoke(r, i)
    /\ UNCHANGED <<pc, lzwVars, encVars, quantVars, ex>>

\* a running modal handler receives an event: a TIMER event while its timer
\* is registered, or any other event
RecModal ==
    /\ pc = "rec"
    /\ Len(rec.log) < MaxEvents
    /\ \E i \in DOMAIN rec.inst, ev \in {"TIMER", "MOUSEMOVE"}, ok \in BOOLEAN :
          /\ rec.inst[i].state = "running"
          /\ ev = "TIMER" => rec.inst[i].timer
          /\ LET m == modal(rec, i, ev, ok)
             IN  rec' = [m.r EXCEPT
                           !.inst[i].stale = FALSE,
                           !.log = Append(@, [inst |-> i, ev |-> ev,
                                              flag |-> rec.is_recording,
                                              stale |-> rec.inst[i].stale,
                                              captured |-> m.captured,
                                              ret |-> m.ret,
                                              timer_after |-> m.r.inst[i].timer])]
    /\ UNCHANGED <<pc, lzwVars, encVars, quantVars, ex>>

\* other code clears the scene property is_recording
RecClear ==
    /\ pc = "rec"
    /\ rec.is_recording
    /\ rec' = [rec EXCEPT !.is_recording = FALSE, !.inst = MarkStale(@)]
    /\ UNCHANGED <<pc, lzwVars, encVars, quantVars, ex>>

NextRec ==
    \/ RecInvoke
    \/ RecModal
    \/ RecClear

SpecRec == InitRec /\ [][NextRec]_vars

(***************************************************************************)
(* Reference reader of a GIF file: signature, logical screen descriptor,   *)
(* global colour table, then extension and image blocks up to the trailer. *)
(* Each image's data sub-blocks are handed to the reference LZW decoder.   *)
(***************************************************************************)
At(bytes, k) == IF k \in 1..Len(bytes) THEN bytes[k] ELSE -1

RECURSIVE SkipBlocks(_, _)
SkipBlocks(bytes, p) ==
    LET n == At(bytes, p)
    IN  IF n <= 0 THEN p + 1 ELSE SkipBlocks(bytes, p + 1 + n)

RECURSIVE BlockData(_, _)
BlockData(bytes, p) ==
    LET n == At(bytes, p)
    IN  IF n <= 0 \/ p + n > Len(bytes)
        THEN <<>>
        ELSE SubSeq(bytes, p + 1, p + n) \o BlockData(bytes, p + 1 + n)

RECURSIVE ReadBlocks(_, _, _, _)
ReadBlocks(bytes, p, delay, frames) ==
    LET b == At(bytes, p)
    IN  IF b = 59
        THEN [ok |-> TRUE, frames |-> frames, last |-> p]
        ELSE IF b = 33
        THEN ReadBlocks(bytes, SkipBlocks(bytes, p + 2),
                        IF At(bytes, p + 1) = 249
                        THEN At(bytes, p + 4) + 256 * At(bytes, p + 5)
                        ELSE delay,
                        frames)
        ELSE IF b = 44 /\ p + 10 <= Len(bytes) /\ At(bytes, p + 9) < 128
                /\ At(bytes, p + 10) = 8
        THEN LET d == DecodeAll(DecInit, BlockData(bytes, p + 11))
                 fr == [delay |-> delay,
                        width |-> At(bytes, p + 5) + 256 * At(bytes, p + 6),
                        height |-> At(bytes, p + 7) + 256 * At(bytes, p + 8),
                        indices |-> d.out,
                        status |-> d.status]
             IN  ReadBlocks(bytes, SkipBlocks(bytes, p + 11), -1, Append(frames, fr))
        ELSE [ok |-> FALSE, frames |-> frames, last |-> p]

GifDecode(bytes) ==
    IF Len(bytes) >= 13 /\ SubSeq(bytes, 1, 6) = <<71, 73, 70, 56, 57, 97>>
    THEN LET packed == bytes[11]
             gct == IF packed >= 128 THEN 3 * Pow2((packed % 8) + 1) ELSE 0
         IN  ReadBlocks(bytes, 14 + gct, -1, <<>>)
    ELSE [ok |-> FALSE, frames |-> <<>>, last |-> 0]

\* the quantizer as the specification states it: level = number of
\* thresholds in {26, 77, 128, 179, 230} that are <= v
SpecLevel(v) == Cardinality({t \in {26, 77, 128, 179, 230} : t <= v})

SpecIndex(r, g, b) == SpecLevel(r) * 36 + SpecLevel(g) * 6 + SpecLevel(b)

SpecIndices(pixels, is_bgra) ==
    [k \in 1..(Len(pixels) \div 4) |->
        LET o == 4 * (k - 1)
        IN  IF is_bgra
            THEN SpecIndex(pixels[o + 3], pixels[o + 2], pixels[o + 1])
            ELSE SpecIndex(pixels[o + 1], pixels[o + 2], pixels[o + 3])]

(***************************************************************************)
(* Shapes of call histories.                                               *)
(***************************************************************************)
LastCall == calls[Len(calls)]

\* start(), then n >= 0 add_frame() calls, then finish(), all returning
\* normally
CompleteRun ==
    /\ Len(calls) >= 2
    /\ calls[1].op = "start"
    /\ LastCall.op = "finish"
    /\ \A k \in 2..(Len(calls) - 1) : calls[k].op = "add_frame"
    /\ \A k \in DOMAIN calls : calls[k].raised = "none"

EndsWithTrailer(bytes) == Len(bytes) >= 1 /\ bytes[Len(bytes)] = 59

(***************************************************************************)
(* Properties.                                                             *)
(***************************************************************************)

\* C1: a standards-compliant decoder reading the bytes returned by
\* _lzw_encode recovers exactly the input index sequence and then sees
\* End-of-Information, for every index sequence, including those long
\* enough to make the code width grow past 9 bits.
C1_DecoderRecoversInput ==
    pc = "decoded" => (dec.status = "eoi" /\ dec.out = indices)

\* C2: round trip on small inputs.  When start(), one or more add_frame()
\* calls and finish() have all returned normally, reading the written file
\* gives, frame by frame and pixel by pixel, the palette indices the
\* quantizer assigns to the input pixels, and each frame's delay is the
\* delay passed to add_frame.
C2_RoundTrip ==
    (pc = "session" /\ Len(calls) >= 3 /\ CompleteRun) =>
        LET g == GifDecode(file.bytes)
            n == Len(calls) - 2
        IN  /\ g.ok
            /\ Len(g.frames) = n
            /\ \A k \in 1..n :
                  LET f == calls[k + 1].frame
                  IN  /\ g.frames[k].status = "eoi"
                      /\ g.frames[k].delay = f.delay
                      /\ g.frames[k].indices = SpecIndices(f.pixels, f.is_bgra)

\* a finished three-frame animation of solid colours
C2_Witness ==
    /\ pc = "session"
    /\ Len(calls) = 5
    /\ CompleteRun
    /\ enc.width = 2
    /\ Len(GifDecode(file.bytes).frames) = 3

\* a finished session holding the 8x8 two-colour checkerboard
C2_WitnessCheckerboard ==
    /\ pc = "session"
    /\ Len(calls) = 3
    /\ CompleteRun
    /\ calls[2].frame.width = 8
    /\ Len(GifDecode(file.bytes).frames[1].indices) = 64

\* C3: after start(), then N >= 0 successful add_frame() calls, then
\* finish(), the bytes written to the sink begin with 'GIF89a' and end with
\* the byte 0x3B.
C3_SignatureAndTrailer ==
    (pc = "session" /\ CompleteRun) =>
        /\ file.exists
        /\ Len(file.bytes) >= 7
        /\ SubSeq(file.bytes, 1, 6) = <<71, 73, 70, 56, 57, 97>>
        /\ file.bytes[Len(file.bytes)] = 59

C3_Witness ==
    /\ pc = "session"
    /\ CompleteRun
    /\ NumFrames(calls) = 2
    /\ file.exists

\* the frame's buffer length or dimensions do not fit the session
BadSize(f) ==
    \/ Len(f.pixels) # f.width * f.height * 4
    \/ f.width # enc.width
    \/ f.height # enc.height

\* C4: add_frame called with a pixel buffer whose length differs from
\* width*height*4, or with a width/height different from the session's,
\* fails with InvalidFrameSize and leaves the session buffer as it was.
C4_InvalidFrameRejected ==
    (pc = "session" /\ Len(calls) >= 1 /\ LastCall.op = "add_frame"
        /\ BadSize(LastCall.frame)) =>
        (LastCall.raised = "InvalidFrameSize" /\ enc.data = before)

\* C5: add_frame called before start() fails with SequenceError and appends
\* nothing to the session buffer.
C5_AddFrameBeforeStart ==
    (pc = "session" /\ Len(calls) >= 1 /\ LastCall.op = "add_frame"
        /\ \A k \in 1..(Len(calls) - 1) : calls[k].op # "start") =>
        (LastCall.raised = "SequenceError" /\ enc.data = before)

\* C6: once finish() has been called, every later start(), add_frame() or
\* finish() fails with SequenceError and leaves the session bytes unchanged.
C6_NothingAfterFinish ==
    (pc = "session" /\ Len(calls) >= 2
        /\ \E k \in 1..(Len(calls) - 1) : calls[k].op = "finish") =>
        (LastCall.raised = "SequenceError" /\ enc.data = before)

\* C7: if the write to the destination inside finish() fails, the error is
\* propagated and the trailer is written neither to the file nor to the
\* session buffer.
C7_NoTrailerOnWriteFailure ==
    (pc = "session" /\ Len(calls) >= 1 /\ LastCall.op = "finish"
        /\ LastCall.io = "write_fails") =>
        /\ LastCall.raised # "none"
        /\ enc.data = before
        /\ ~EndsWithTrailer(file.bytes)

\* C8: on the path add_frame actually uses (numpy importable), every
\* channel value v gets level = number of thresholds <= v, and the pixel
\* index is r_level*36 + g_level*6 + b_level in 0..215 whatever the alpha.
C8_ThresholdLevels ==
    (pc = "quant_done" /\ quant.np_ok) =>
        LET p == quant.pixels
            r == IF quant.is_bgra THEN p[3] ELSE p[1]
            b == IF quant.is_bgra THEN p[1] ELSE p[3]
        IN  /\ quant.out.raised = "none"
            /\ quant.out.indices = <<SpecIndex(r, p[2], b)>>
            /\ quant.out.indices[1] \in 0..215

\* C9: on every quantization path add_frame can take, the bytes (b, g, r, a)
\* with the BGRA flag set get the palette index that (r, g, b, a) get with
\* the flag clear.
C9_ChannelOrder ==
    pc = "quant_done" =>
        LET p == quant.pixels
            other == quantize_call(<<p[3], p[2], p[1], p[4]>>, ~quant.is_bgra,
                                   quant.np_ok)
        IN  /\ quant.out.raised = "none"
            /\ other.raised = "none"
            /\ other.indices = quant.out.indices

\* C10: two independent sessions given the same width, height, loop count
\* and the same calls write byte-identical files from finish(), whichever
\* quantization path each session takes.
C10_Deterministic ==
    (pc = "pair" /\ Len(calls) >= 1 /\ LastCall.op = "finish"
        /\ LastCall.io = "ok") =>
        file.bytes = file2.bytes

\* the colour table of section 4.3 as bytes: the 216 cube entries over the
\* levels 0, 51, ..., 255, then 40 black entries
ExpectedColourTable ==
    [j \in 1..768 |->
        LET e == (j - 1) \div 3
            ch == (j - 1) % 3
        IN  IF e >= 216 THEN 0
            ELSE IF ch = 0 THEN 51 * (e \div 36)
            ELSE IF ch = 1 THEN 51 * ((e \div 6) % 6)
            ELSE 51 * (e % 6)]

\* C11: the Global Color Table written by start() is exactly 768 bytes,
\* bytes 13..780 of the output (14..781 counting from one), whatever frames
\* are added afterwards.
C11_ColourTable768 ==
    (pc = "session" /\ Len(calls) >= 1 /\ calls[1].op = "start") =>
        /\ Len(enc.data) >= 781
        /\ enc.data[11] = 247
        /\ SubSeq(enc.data, 14, 781) = ExpectedColourTable
        /\ (Len(calls) = 1 => Len(enc.data) = (IF enc.loop >= 0 THEN 800 ELSE 781))

\* start() first, then at least two frames appended
C11_Witness ==
    /\ pc = "session"
    /\ Len(calls) >= 3
    /\ calls[1].op = "start"
    /\ calls[2].op = "add_frame" /\ calls[2].raised = "none"
    /\ calls[3].op = "add_frame" /\ calls[3].raised = "none"

\* C12: the compressed data of a frame is written as sub-blocks, each a
\* length byte L with 1 <= L <= 255 followed by exactly L data bytes; every
\* sub-block but the last has L = 255; the data of the sub-blocks, in order,
\* is the LZW byte stream; one zero byte ends the sequence.
C12_SubBlocks ==
    pc \in {"decode", "decoded"} =>
        LET L == Len(res)
            n == (L + 254) \div 255
        IN  /\ Len(blocks) = L + n + 1
            /\ \A k \in 1..n :
                   LET p == 1 + 256 * (k - 1)
                       len == blocks[p]
                       from == 255 * (k - 1)
                   IN  /\ len \in 1..255
                       /\ k < n => len = 255
                       /\ k = n => from + len = L
                       /\ SubSeq(blocks, p + 1, p + len) = SubSeq(res, from + 1, from + len)
            /\ blocks[Len(blocks)] = 0

\* a stream of two sub-blocks, a full one and a shorter last one
C12_Witness ==
    /\ pc = "decode"
    /\ Len(res) \in 256..509
    /\ Len(blocks) = Len(res) + 3
    /\ blocks[1] = 255
    /\ blocks[257] = Len(res) - 255

\* a 16-bit word, low byte first
LE16(v) == <<v % 256, (v \div 256) % 256>>

\* 21 FF 0B 'NETSCAPE2.0' 03 01 <loop count> 00
LoopExtension(l) ==
    <<33, 255, 11, 78, 69, 84, 83, 67, 65, 80, 69, 50, 46, 48, 3, 1>> \o LE16(l) \o <<0>>

\* 'GIF89a', width, height, F7, 00, 00 and the colour table
ScreenAndTable(w, h) ==
    <<71, 73, 70, 56, 57, 97>> \o LE16(w) \o LE16(h) \o <<247, 0, 0>>
        \o ExpectedColourTable

\* C13: start() writes, in this order and with nothing else: 'GIF89a',
\* little-endian 16-bit width, little-endian 16-bit height, packed byte
\* 0xF7, background index 0, aspect ratio 0, the 768-byte colour table, and
\* then the loop extension only if loop >= 0.
C13_StartBytes ==
    pc = "started" =>
        enc.data = ScreenAndTable(enc.width, enc.height)
                      \o (IF enc.loop >= 0 THEN LoopExtension(enc.loop) ELSE <<>>)

\* the same layout for the start() calls that return
C13_StartBytesOnReturn ==
    (pc = "started" /\ calls[1].raised = "none") =>
        enc.data = ScreenAndTable(enc.width, enc.height)
                      \o (IF enc.loop >= 0 THEN LoopExtension(enc.loop) ELSE <<>>)

\* C14: for every loop count of the i32 range start() completes without
\* error; a negative loop count writes no application extension, and a loop
\* count >= 0 appends exactly 21 FF 0B 'NETSCAPE2.0' 03 01, the loop count
\* as a little-endian 16-bit word, and a zero byte.
C14_LoopExtension ==
    pc = "started" =>
        /\ calls[1].raised = "none"
        /\ enc.loop < 0 => Len(enc.data) = 781
        /\ enc.loop >= 0 =>
               SubSeq(enc.data, 782, Len(enc.data)) = LoopExtension(enc.loop)

\* 21 F9 04 08 <delay> 00 00, 2C 0000 0000 <width> <height> 00, 08
FrameHeader(f) ==
    <<33, 249, 4, 8>> \o LE16(f.delay) \o <<0, 0>>
        \o <<44, 0, 0, 0, 0>> \o LE16(f.width) \o LE16(f.height) \o <<0>>
        \o <<8>>

\* C15: each successful add_frame appends exactly the Graphics Control
\* Extension 21 F9 04 08 <delay, little-endian u16> 00 00, the Image
\* Descriptor 2C with left = 0, top = 0, the frame's width and height
\* (little-endian u16) and packed byte 00 (no local colour table), the
\* minimum code size 08, the sub-blocked LZW data of the frame's indices,
\* and the zero terminator, in that order.
C15_FrameBytes ==
    (pc = "session" /\ Len(calls) >= 1 /\ LastCall.op = "add_frame"
        /\ LastCall.raised = "none") =>
        LET f == LastCall.frame
            n == Len(before)
            tail == SubSeq(enc.data, n + 20, Len(enc.data))
            d == DecodeAll(DecInit, BlockData(tail, 1))
        IN  /\ Len(enc.data) >= n + 19
            /\ SubSeq(enc.data, 1, n) = before
            /\ SubSeq(enc.data, n + 1, n + 19) = FrameHeader(f)
            /\ Len(tail) >= 2
            /\ tail[1] \in 1..255
            /\ SkipBlocks(tail, 1) = Len(tail) + 1
            /\ tail[Len(tail)] = 0
            /\ d.status = "eoi"
            /\ d.out = quantize_call(f.pixels, f.is_bgra, np1).indices

\* a second frame with a delay that needs both bytes of its field
C15_Witness ==
    /\ pc = "session"
    /\ Len(calls) >= 3
    /\ LastCall.op = "add_frame"
    /\ LastCall.raised = "none"
    /\ LastCall.frame.delay = 300
    /\ calls[Len(calls) - 1].op = "add_frame"
    /\ calls[Len(calls) - 1].raised = "none"
    /\ Len(enc.data) > Len(before) + 19

IsPrefix(a, b) == Len(a) <= Len(b) /\ SubSeq(b, 1, Len(a)) = a

\* the step just taken is an add_frame call
AddFrameStep ==
    /\ Len(calls') = Len(calls) + 1
    /\ calls'[Len(calls')].op = "add_frame"

\* C16: add_frame only appends.  Over any sequence of calls, the buffer
\* before each add_frame is a prefix of the buffer after it (so the frame
\* blocks lie in the output in call order), and the call leaves the width,
\* height, loop count and palette of the session as they were.
C16_AddFrameOnlyAppends ==
    [][AddFrameStep =>
          /\ IsPrefix(enc.data, enc'.data)
          /\ enc'.width = enc.width
          /\ enc'.height = enc.height
          /\ enc'.loop = enc.loop
          /\ enc'.palette = enc.palette]_vars

\* three frames added after start(), each longer buffer extending the last
C16_Witness ==
    /\ pc = "session"
    /\ Len(calls) = 4
    /\ calls[1].op = "start"
    /\ \A k \in 2..4 : calls[k].op = "add_frame" /\ calls[k].raised = "none"
    /\ Len(before) > 800
    /\ Len(enc.data) > Len(before)
    /\ IsPrefix(before, enc.data)

\* entry e (0..255) of the colour table the session wrote at the head of
\* its buffer
TableEntry(e) == <<enc.data[14 + 3 * e], enc.data[15 + 3 * e], enc.data[16 + 3 * e]>>

StartCalled == \E k \in DOMAIN calls : calls[k].op = "start"

IsSolid(s) == Len(s) >= 1 /\ \A k \in DOMAIN s : s[k] = s[1]

\* n pixels are a frame of W x H with W >= 2 and H >= 2
TwoByTwoOrMore(n) == \E W \in 2..n, H \in 2..n : W * H = n

\* _lzw_encode has returned the bytes of a solid frame
SolidCompressed ==
    /\ pc = "lzw_blocks"
    /\ IsSolid(indices)
    /\ TwoByTwoOrMore(Len(indices))

\* C18 as stated: for every single solid-colour frame of W x H with W >= 2
\* and H >= 2, the number of compressed bytes _lzw_encode returns is
\* smaller than W * H.
C18_SolidShrinks_AsStated ==
    SolidCompressed => Len(res) < Len(indices)

\* C18: for every single solid-colour frame of W x H with W >= 2, H >= 2
\* and W * H >= 8, the number of compressed bytes _lzw_encode returns is
\* smaller than W * H.
C18_SolidShrinks ==
    (SolidCompressed /\ Len(indices) >= 8) => Len(res) < Len(indices)

\* a 5 x 5 solid frame compressed to less than half its pixel count
C18_Witness ==
    /\ SolidCompressed
    /\ Len(indices) = 25
    /\ 2 * Len(res) < Len(indices)

\* C19: the accelerated (numpy) quantization path and the per-pixel
\* fallback return the same index array for every pixel buffer and every
\* channel-order flag, channel values equal to a threshold (26, 77, 128,
\* 179, 230) included, and the fallback can be called with the arguments
\* add_frame passes to it.
C19_PathsAgree ==
    pc = "quant_done" =>
        LET fast == quantize_call(quant.pixels, quant.is_bgra, TRUE)
            slow == quantize_call(quant.pixels, quant.is_bgra, FALSE)
        IN  /\ FallbackArgsPassed = FallbackParams
            /\ quant.out.raised = "none"
            /\ slow.raised = "none"
            /\ slow.indices = fast.indices
            /\ map_pixels_to_palette(quant.pixels).indices = fast.indices

\* the codes handed to emit, in order
EmittedCodes == [k \in DOMAIN lz.codes |-> lz.codes[k][1]]

IsSuffix(a, b) ==
    Len(a) <= Len(b) /\ SubSeq(b, Len(b) - Len(a) + 1, Len(b)) = a

\* C20: for every non-empty index sequence the first code _lzw_encode emits
\* is Clear (256), the last is End-of-Information (257), the code before
\* the last is the code of the final pending pattern, and 257 is emitted
\* exactly once; a single pixel of index i gives exactly 256, i, 257.
C20_CodeSequence ==
    (pc = "lzw_blocks" /\ Len(indices) >= 1) =>
        LET cs == EmittedCodes
            n == Len(cs)
        IN  /\ n >= 3
            /\ cs[1] = 256
            /\ cs[n] = 257
            /\ lz.pattern # <<>>
            /\ IsSuffix(lz.pattern, indices)
            /\ lz.pattern \in DOMAIN lz.table
            /\ cs[n - 1] = lz.table[lz.pattern]
            /\ Cardinality({k \in 1..n : cs[k] = 257}) = 1
            /\ Len(indices) = 1 => cs = <<256, indices[1], 257>>

\* the single pixel of index 215 has been encoded
C20_Witness ==
    /\ pc = "lzw_blocks"
    /\ indices = <<215>>
    /\ EmittedCodes = <<256, 215, 257>>

\* codes 0..255 are bound to the single-index strings and to nothing else
SingleIndexCodes(table) ==
    /\ \A k \in 0..255 : <<k>> \in DOMAIN table /\ table[<<k>>] = k
    /\ \A p \in DOMAIN table : table[p] <= 255 => Len(p) = 1

\* the loop of _lzw_encode takes an index whose extension of the pattern
\* is not in the dictionary
ExtendMiss ==
    /\ pc = "lzw_loop"
    /\ pos' = pos + 1
    /\ (lz.pattern \o <<indices[pos + 1]>>) \notin DOMAIN lz.table

\* C21: in _lzw_encode, each time the extended pattern is not in the
\* dictionary, the code emitted is the one bound to the unextended pattern,
\* the extended pattern is inserted bound to the current next_code,
\* next_code grows by exactly one, and pattern becomes the single new
\* index; next_code starts at 258, and codes 0..255 always denote the
\* single-index strings.  (The iteration whose insertion uses code 4095
\* ends with the dictionary reset, which discards the insertion; for it the
\* emitted code and the new pattern are checked.)
C21_MissStep ==
    [][/\ pc = "lzw_start" => lz.next_code = 258
       /\ pc \in {"lzw_start", "lzw_loop"} => SingleIndexCodes(lz'.table)
       /\ ExtendMiss =>
             LET idx == indices[pos + 1]
                 new_pattern == lz.pattern \o <<idx>>
                 n == Len(lz.codes)
             IN  /\ Len(lz'.codes) >= n + 1
                 /\ lz'.codes[n + 1][1] = lz.table[lz.pattern]
                 /\ lz'.pattern = <<idx>>
                 /\ lz.next_code < 4095 =>
                        /\ Len(lz'.codes) = n + 1
                        /\ lz'.next_code = lz.next_code + 1
                        /\ lz'.table = (new_pattern :> lz.next_code) @@ lz.table]_vars

\* the first two indices differ from a repetition, so their pair was
\* entered into the dictionary as code 258 and the second is pending
C21_Witness ==
    /\ pc = "lzw_loop"
    /\ pos = 2
    /\ <<indices[1], indices[2]>> \in DOMAIN lz.table
    /\ lz.table[<<indices[1], indices[2]>>] = 258
    /\ lz.next_code = 259
    /\ lz.pattern = <<indices[2]>>

\* the loop of _lzw_encode takes one index
LoopStep == pc = "lzw_loop" /\ pos' = pos + 1

\* C22: in _lzw_encode the code width is incremented exactly when, after an
\* insertion, next_code equals 2^code_width, and between two Clear codes
\* the width used for successive emitted codes never decreases.  (When the
\* insertion brings next_code to 4096 = 2^12 the width is incremented too,
\* as the width of the Clear code emitted next shows, before the reset sets
\* it back to 9.)
C22_WidthGrowth ==
    [][LoopStep =>
          LET n == Len(lz.codes)
              grown == ExtendMiss /\ lz.next_code + 1 = Pow2(lz.code_size)
          IN  /\ (grown /\ lz.next_code + 1 < 4096) => lz'.code_size = lz.code_size + 1
              /\ (grown /\ lz.next_code + 1 = 4096) =>
                     /\ Len(lz'.codes) = n + 2
                     /\ lz'.codes[n + 2] = <<256, lz.code_size + 1>>
              /\ ~grown => lz'.code_size = lz.code_size
              /\ \A j \in (n + 1)..Len(lz'.codes) :
                     (j > 1 /\ lz'.codes[j - 1][1] # 256) =>
                         lz'.codes[j][2] >= lz'.codes[j - 1][2]
              /\ \A j \in (n + 1)..Len(lz'.codes) :
                     lz'.codes[j][1] # 256 => lz'.codes[j][2] = lz.code_size]_vars

\* the 254th insertion has brought next_code to 512 and the width to 10
C22_Witness ==
    /\ pc = "lzw_loop"
    /\ lz.next_code = 512
    /\ lz.code_size = 10
    /\ lz.codes[Len(lz.codes)][2] = 9

\* C23: when next_code reaches 4096, _lzw_encode emits a Clear code and
\* resets the dictionary to the 256 single-index entries with next_code =
\* 258 and code width = 9, keeps the pending single-index pattern and
\* raises no error; next_code never exceeds 4096 in any reachable state.
C23_ResetAt4096 ==
    [][LoopStep =>
          /\ lz'.next_code <= 4096
          /\ (ExtendMiss /\ lz.next_code + 1 = 4096) =>
                 /\ lz'.codes[Len(lz'.codes)][1] = 256
                 /\ lz'.codes[Len(lz'.codes) - 1][1] = lz.table[lz.pattern]
                 /\ DOMAIN lz'.table = {<<k>> : k \in 0..255}
                 /\ \A k \in 0..255 : lz'.table[<<k>>] = k
                 /\ lz'.next_code = 258
                 /\ lz'.code_size = 9
                 /\ lz'.pattern = <<indices[pos + 1]>>
                 /\ lz'.raised = "none"]_vars

\* the dictionary has just been reset in mid-stream
C23_Witness ==
    /\ pc = "lzw_loop"
    /\ Len(lz.codes) > 3000
    /\ lz.codes[Len(lz.codes)][1] = 256
    /\ lz.next_code = 258
    /\ lz.code_size = 9
    /\ Len(lz.pattern) = 1

\* the states SpecLimit starts from are the ones the full run passes through
LimitStartsReached ==
    (pc = "lzw_loop" /\ indices = Scramble(MaxScramble) /\ pos \in LimitStarts) =>
        lz = LzwRun(emit(LzwInit, clear_code), indices, 1, pos)

\* sum of the widths of the emitted codes lo..hi
RECURSIVE WidthSum(_, _, _)
WidthSum(cs, lo, hi) ==
    IF lo > hi THEN 0
    ELSE IF lo = hi THEN cs[lo][2]
    ELSE LET m == (lo + hi) \div 2
         IN  WidthSum(cs, lo, m) + WidthSum(cs, m + 1, hi)

\* C24: the byte stream returned by _lzw_encode is a function only of the
\* sequence of (code, width) pairs emitted: bit k of the concatenation of
\* each code's low `width` bits, least significant first, is bit (k mod 8)
\* of byte (k div 8); the stream has ceil(total_bits / 8) bytes and the
\* unused high bits of the last byte are zero.
C24_BitPacking ==
    pc = "lzw_blocks" =>
        LET cs == lz.codes
            total == WidthSum(cs, 1, Len(cs))
        IN  /\ Len(res) = (total + 7) \div 8
            /\ \A j \in 1..Len(cs) :
                   LET off == WidthSum(cs, 1, j - 1)
                   IN  \A b \in 0..(cs[j][2] - 1) :
                          ByteBit(res, off + b) = (cs[j][1] \div Pow2(b)) % 2
            /\ \A k \in total..(8 * Len(res) - 1) : ByteBit(res, k) = 0

\* codes of 9 and of 10 bits were emitted and the last byte is not full
C24_Witness ==
    /\ pc = "lzw_blocks"
    /\ lz.codes[1][2] = 9
    /\ lz.codes[Len(lz.codes)][2] = 10
    /\ WidthSum(lz.codes, 1, Len(lz.codes)) % 8 # 0
    /\ Len(res) > 255

\* the bytes the last call appended
Appended == SubSeq(enc.data, Len(before) + 1, Len(enc.data))

LastAddFrameReturned ==
    /\ pc = "session"
    /\ Len(calls) >= 1
    /\ LastCall.op = "add_frame"
    /\ LastCall.raised = "none"

\* C25: each frame is compressed with a fresh dictionary, code width and
\* next_code: the bytes add_frame appends for a given (pixels, width,
\* height, delay, flag) are the same whatever frames were added to the
\* session before it: the same as on a session that holds nothing, and
\* the same as the bytes the call before appended for the same frame.
C25_FrameBytesIndependent ==
    LastAddFrameReturned =>
        LET f == LastCall.frame
            n == Len(calls)
        IN  /\ Appended = add_frame(new(enc.width, enc.height, enc.loop), f, np1).s.data
            /\ (n >= 2 /\ calls[n - 1].op = "add_frame" /\ calls[n - 1].raised = "none"
                    /\ calls[n - 1].frame = f) =>
                   /\ Len(before) >= Len(Appended)
                   /\ SubSeq(before, Len(before) - Len(Appended) + 1, Len(before)) = Appended

\* the same frame was added twice in a row behind start() and another frame
C25_Witness ==
    /\ LastAddFrameReturned
    /\ Len(calls) >= 4
    /\ calls[1].op = "start"
    /\ calls[Len(calls) - 1].op = "add_frame"
    /\ calls[Len(calls) - 1].raised = "none"
    /\ calls[Len(calls) - 1].frame = LastCall.frame
    /\ calls[Len(calls) - 2].op = "add_frame"
    /\ calls[Len(calls) - 2].raised = "none"
    /\ Len(Appended) > 19

\* C26: every code _lzw_encode emits, the Clear codes emitted at the
\* 4096-entry reset included, is written with a width between 9 and 12
\* bits inclusive.
C26_WidthAtMost12 ==
    pc \in {"lzw_start", "lzw_loop", "lzw_pack", "lzw_blocks"} =>
        \A k \in DOMAIN lz.codes : lz.codes[k][2] \in 9..12

\* C27: add_frame is all-or-nothing on the session buffer: for every
\* argument combination (a delay outside 0..65535, a zero-pixel frame or an
\* unavailable accelerated path included) either it appends one complete
\* frame block ending in the zero terminator, or it raises and leaves the
\* buffer exactly as it was before the call.
C27_AllOrNothing ==
    (pc = "session" /\ Len(calls) >= 1 /\ LastCall.op = "add_frame") =>
        IF LastCall.raised = "none"
        THEN /\ IsPrefix(before, enc.data)
             /\ Len(Appended) >= 21
             /\ SubSeq(Appended, 1, 19) = FrameHeader(LastCall.frame)
             /\ SkipBlocks(Appended, 20) = Len(Appended) + 1
             /\ Appended[Len(Appended)] = 0
        ELSE enc.data = before

ExportPcs == {"ex_begin", "ex_collect", "ex_dims", "ex_start", "ex_frames",
              "ex_except", "ex_done"}

FinishCalled == \E k \in DOMAIN calls : calls[k].op = "finish"

\* the calls made so far are start(), then add_frame() for the frame files
\* 0, 1, 2, ... in this order, then finish(), each once, cut off after the
\* first call that raised
ExportCallOrder ==
    LET n == ex.nfiles
    IN  /\ Len(calls) <= n + 2
        /\ \A k \in DOMAIN calls :
               /\ k = 1 => calls[k].op = "start"
               /\ k \in 2..(n + 1) =>
                      /\ calls[k].op = "add_frame"
                      /\ calls[k].fno = k - 2
                      /\ calls[k].frame.pixels = ExPixels(k - 2)
               /\ k = n + 2 => calls[k].op = "finish"
               /\ calls[k].raised # "none" => k = Len(calls)

\* C28: the GIF export operator drives the encoder in the order start()
\* once, add_frame() once per frame file in increasing frame number,
\* finish() once; if any step before finish raises, finish is never
\* called, no output file is written, and the operator returns CANCELLED.
C28_ExportOrder ==
    pc \in ExportPcs =>
        /\ ExportCallOrder
        /\ (pc = "ex_done" /\ ex.ret = "None") =>
               /\ Len(calls) = ex.nfiles + 2
               /\ \A k \in DOMAIN calls : calls[k].raised = "none"
        /\ ex.raised_at \in {"read_header", "start", "read_frame", "add_frame"} =>
               /\ ~FinishCalled
               /\ ~file.exists
               /\ pc = "ex_done" => ex.ret = "CANCELLED"
               /\ pc \in {"ex_except", "ex_done"}

\* the second of three frame files could not be read: one frame was added
\* and the operator has returned
C28_Witness ==
    /\ pc = "ex_done"
    /\ ex.nfiles = 3
    /\ ex.raised_at = "read_frame"
    /\ Len(calls) = 2
    /\ calls[2].op = "add_frame"
    /\ calls[2].raised = "none"
    /\ ex.ret = "CANCELLED"

\* three frames were exported and the file was written
C28_WitnessComplete ==
    /\ pc = "ex_done"
    /\ ex.nfiles = 3
    /\ ex.ret = "None"
    /\ Len(calls) = 5
    /\ file.exists

\* C29: in the recording operator no frame is captured once is_recording
\* is false: on the first event the running modal handler receives after
\* is_recording became false (cleared by a second invoke or otherwise) it
\* removes its timer and returns FINISHED without capturing; and
\* _frame_count always equals the number of captures that completed
\* successfully.
C29_StopsAtNextEvent ==
    pc = "rec" =>
        /\ \A k \in DOMAIN rec.log :
               LET e == rec.log[k]
               IN  (e.stale \/ ~e.flag) =>
                      /\ e.ret = "FINISHED"
                      /\ ~e.captured
                      /\ ~e.timer_after
        /\ \A i \in DOMAIN rec.inst :
               rec.inst[i].frame_count = rec.inst[i].written

\* the part of C29 that looks at the flag as it is when the event arrives
C29_NoCaptureWhileFlagFalse ==
    pc = "rec" =>
        /\ \A k \in DOMAIN rec.log :
               LET e == rec.log[k]
               IN  ~e.flag =>
                      /\ e.ret = "FINISHED"
                      /\ ~e.captured
                      /\ ~e.timer_after
        /\ \A i \in DOMAIN rec.inst :
               rec.inst[i].frame_count = rec.inst[i].written

\* no two keys of the dictionary are bound to the same code
OneKeyPerCode(table) ==
    Cardinality({table[p] : p \in DOMAIN table}) = Cardinality(DOMAIN table)

\* line 263 is reached: the loop is over and the pending pattern is emitted
FinalEmit == pc = "lzw_loop" /\ pc' = "lzw_pack"

\* C30: in _lzw_encode, for every index sequence of length >= 1, whenever
\* the code for `pattern` is emitted (line 250 in the loop, line 263 after
\* it), `pattern` is a key of the current dictionary, its code is less than
\* next_code and less than 2^code_width, and no two dictionary keys are
\* bound to the same code.
C30_EmittedPatternCode ==
    [][(Len(indices) >= 1 /\ (ExtendMiss \/ FinalEmit)) =>
          LET n == Len(lz.codes)
          IN  /\ lz.pattern \in DOMAIN lz.table
              /\ lz.table[lz.pattern] < lz.next_code
              /\ lz.table[lz.pattern] < Pow2(lz.code_size)
              /\ OneKeyPerCode(lz.table)
              /\ Len(lz'.codes) >= n + 1
              /\ lz'.codes[n + 1] = <<lz.table[lz.pattern], lz.code_size>>]_vars

\* the code of a pattern of two indices has been emitted
C30_Witness ==
    /\ pc = "lzw_loop"
    /\ Len(lz.codes) >= 3
    /\ lz.codes[Len(lz.codes)][1] >= 258
    /\ lz.codes[Len(lz.codes)][1] < lz.next_code
    /\ \E p \in DOMAIN lz.table :
           Len(p) = 2 /\ lz.table[p] = lz.codes[Len(lz.codes)][1]

====
